---- MODULE Spec2Model ----
(***************************************************************************)
(* focus: a daemon and one-shot commands that block domains during time    *)
(* windows by rewriting a managed block of the hosts file, with a daily    *)
(* quota of temporary exceptions, and that switch the display to           *)
(* grayscale.  Model of src/src/main.rs.                                   *)
(*                                                                         *)
(* Text is a sequence of tokens: a token is a line feed, a carriage        *)
(* return, a blank, or a piece of text without white space at its ends.    *)
(* A time string "HH:MM" is the number of its minute in the day; an        *)
(* instant is a number of ticks, TicksPerMinute ticks to the minute; a     *)
(* date string is the number of its day.                                   *)
(***************************************************************************)
EXTENDS Integers, Sequences, FiniteSets, TLC

\* ------------------------------------------------------------------ bounds
TicksPerMinute == 2
DayMinutes == 2
MaxRules == 2
MaxLines == 4
MaxTicks == 4
MaxLimit == 1
MaxMinutes == 1

TicksPerDay == DayMinutes * TicksPerMinute

\* ---------------------------------------------------------------- constants
MARKER_START == "# BEGIN FOCUS BLOCK"
MARKER_END == "# END FOCUS BLOCK"
NL == "\\n"
CR == "\\r"
SP == " "
LOOPBACK == "127.0.0.1"
WWW == "www."

\* Option<T>: None is the empty sequence, Some(v) is <<v>>.
None == << >>
Some(v) == << v >>

\* ------------------------------------------------------------------- text
Front(s) == SubSeq(s, 1, Len(s) - 1)
Last(s) == s[Len(s)]

\* char::is_whitespace, on the tokens of the model
is_whitespace(tok) == tok \in {NL, CR, SP}

RECURSIVE trim_start(_)
trim_start(s) ==
    IF s # << >> /\ is_whitespace(Head(s)) THEN trim_start(Tail(s)) ELSE s

RECURSIVE trim_end(_)
trim_end(s) ==
    IF s # << >> /\ is_whitespace(Last(s)) THEN trim_end(Front(s)) ELSE s

\* str::trim
trim(s) == trim_end(trim_start(s))

\* str::split_inclusive('\n'): the pieces keep their line feed
RECURSIVE split_inclusive(_, _, _)
split_inclusive(s, cur, acc) ==
    IF s = << >>
    THEN IF cur = << >> THEN acc ELSE Append(acc, cur)
    ELSE IF Head(s) = NL
         THEN split_inclusive(Tail(s), << >>, Append(acc, Append(cur, NL)))
         ELSE split_inclusive(Tail(s), Append(cur, Head(s)), acc)

\* what str::lines does to one piece: a final "\n" is removed and then, only
\* when there was one, a single "\r" before it
lines_map(piece) ==
    IF piece # << >> /\ Last(piece) = NL
    THEN LET l == Front(piece)
         IN IF l # << >> /\ Last(l) = CR THEN Front(l) ELSE l
    ELSE piece

\* str::lines
lines(s) ==
    LET pieces == split_inclusive(s, << >>, << >>)
    IN [i \in 1..Len(pieces) |-> lines_map(pieces[i])]

\* [String]::join("\n")
RECURSIVE join(_)
join(ls) ==
    IF ls = << >> THEN << >>
    ELSE IF Len(ls) = 1 THEN ls[1]
    ELSE ls[1] \o << NL >> \o join(Tail(ls))

\* ---------------------------------------------------------------- domains
\* The names a user types and the domains they normalize to.  Strings are
\* atoms here, so the two string operations normalize_domain uses are tables:
\* which names contain a '.', and the name followed by ".com".
DottedNames == {"a.com", "b.com"}
BareNames == {"a"}
Names == BareNames \cup DottedNames
contains_dot(input) == input \in DottedNames
format_com(input) == CASE input = "a" -> "a.com"

normalize_domain(input) ==
    IF contains_dot(input) THEN input ELSE format_com(input)

\* The order of String (byte-wise lexicographic) on the domains of the model.
DomainsAscending == << "a.com", "b.com" >>
Domains == {DomainsAscending[i] : i \in 1..Len(DomainsAscending)}
rank(d) == CHOOSE i \in 1..Len(DomainsAscending) : DomainsAscending[i] = d
str_le(a, b) == rank(a) <= rank(b)

\* ------------------------------------------------------------------- time
\* DateTime::time: the time of day of an instant
time(now) == now % TicksPerDay
\* DateTime::format("%Y-%m-%d"): the date of an instant
format_date(now) == now \div TicksPerDay
\* NaiveTime::parse_from_str(s, "%H:%M"): minute m of the day, at second 0
parse_ok(s) == s \in 0..(DayMinutes - 1)
parse_from_str(s) == s * TicksPerMinute
\* chrono::Duration::minutes
minutes_duration(m) == m * TicksPerMinute

\* Faulty variant of in_time_window: the end of the window is excluded.
in_time_window_open_end(current_time, start, end) ==
    IF start <= end
    THEN current_time >= start /\ current_time < end
    ELSE current_time >= start \/ current_time < end

\* main.rs 168-172: the window test of update_hosts_file
in_time_window(current_time, start, end) ==
    IF start <= end
    THEN current_time >= start /\ current_time <= end
    ELSE current_time >= start \/ current_time <= end

\* main.rs 270-274: the window test of update_screen_color
bw_in_time_window(current_time, start, end) ==
    IF start <= end
    THEN current_time >= start /\ current_time <= end
    ELSE current_time >= start \/ current_time <= end

\* Faulty variant of is_exception: an exception never expires.
is_exception_forever(exception_until, now) == exception_until # None

\* Faulty variant of is_exception: an exception still holds at its expiry.
is_exception_at_expiry(exception_until, now) ==
    IF exception_until = None THEN FALSE ELSE exception_until[1] >= now

\* main.rs 176-179
is_exception(exception_until, now) ==
    IF exception_until = None THEN FALSE ELSE exception_until[1] > now

\* ------------------------------------------------------ update_hosts_file
\* main.rs 164-189: the loop over the rules, pushing the domains to block
RECURSIVE push_domains(_, _, _)
push_domains(rules, now, acc) ==
    IF rules = << >> THEN acc
    ELSE LET rule == Head(rules)
             start == parse_from_str(rule.start_time)
             end == parse_from_str(rule.end_time)
         IN IF in_time_window(time(now), start, end)
               /\ ~is_exception(rule.exception_until, now)
            THEN push_domains(Tail(rules), now, Append(acc, rule.domain))
            ELSE push_domains(Tail(rules), now, acc)

\* Vec::sort: an insertion sort by the order of String
RECURSIVE insert_sorted(_, _)
insert_sorted(d, sorted) ==
    IF sorted = << >> THEN << d >>
    ELSE IF str_le(d, Head(sorted)) THEN << d >> \o sorted
    ELSE << Head(sorted) >> \o insert_sorted(d, Tail(sorted))

RECURSIVE sort(_)
sort(v) == IF v = << >> THEN << >> ELSE insert_sorted(Head(v), sort(Tail(v)))

\* Vec::dedup: removes consecutive repeated elements
RECURSIVE dedup(_)
dedup(v) ==
    IF Len(v) <= 1 THEN v
    ELSE IF v[1] = v[2] THEN dedup(Tail(v))
    ELSE << v[1] >> \o dedup(Tail(v))

\* main.rs 161-193
domains_to_block(rules, now) == dedup(sort(push_domains(rules, now, << >>)))

\* Faulty variant of scan_lines: an end marker does not close the region.
RECURSIVE scan_lines_never_closed(_, _, _)
scan_lines_never_closed(ls, in_block, new_lines) ==
    IF ls = << >> THEN new_lines
    ELSE LET line == Head(ls)
         IN IF trim(line) = << MARKER_START >>
            THEN scan_lines_never_closed(Tail(ls), TRUE, new_lines)
            ELSE IF trim(line) = << MARKER_END >>
            THEN scan_lines_never_closed(Tail(ls), in_block, new_lines)
            ELSE IF ~in_block
            THEN scan_lines_never_closed(Tail(ls), in_block, Append(new_lines, line))
            ELSE scan_lines_never_closed(Tail(ls), in_block, new_lines)

\* main.rs 200-204: the scan that keeps the lines outside the markers
RECURSIVE scan_lines(_, _, _)
scan_lines(ls, in_block, new_lines) ==
    IF ls = << >> THEN new_lines
    ELSE LET line == Head(ls)
         IN IF trim(line) = << MARKER_START >>
            THEN scan_lines(Tail(ls), TRUE, new_lines)
            ELSE IF trim(line) = << MARKER_END >>
            THEN scan_lines(Tail(ls), FALSE, new_lines)
            ELSE IF ~in_block
            THEN scan_lines(Tail(ls), in_block, Append(new_lines, line))
            ELSE scan_lines(Tail(ls), in_block, new_lines)

\* main.rs 208-211: the two lines of each blocked domain
RECURSIVE domain_lines(_)
domain_lines(domains) ==
    IF domains = << >> THEN << >>
    ELSE << << LOOPBACK, SP, Head(domains) >>,
            << LOOPBACK, SP, WWW, Head(domains) >> >>
         \o domain_lines(Tail(domains))

\* Faulty variant of managed_block: the markers are emitted for an empty set.
managed_block_always(domains) ==
    << << MARKER_START >> >> \o domain_lines(domains) \o << << MARKER_END >> >>

\* main.rs 206-213
managed_block(domains) ==
    IF domains # << >>
    THEN << << MARKER_START >> >> \o domain_lines(domains) \o << << MARKER_END >> >>
    ELSE << >>

\* main.rs 197-215: the new content for the content read and the block set
final_content(hosts_content, domains) ==
    join(scan_lines(lines(hosts_content), FALSE, << >>) \o managed_block(domains))

\* main.rs 216: whether the file is written
content_changed(new_content, hosts_content) ==
    trim(new_content) # trim(hosts_content)

\* main.rs 165-166: a rule whose times do not parse makes the function fail
\* before it reads the file
rules_parse(rules) ==
    \A i \in 1..Len(rules) :
        parse_ok(rules[i].start_time) /\ parse_ok(rules[i].end_time)

\* ---------------------------------------------------- update_screen_color
\* Faulty variant of any_bw_rule: only the first display rule is tested.
any_bw_rule_first_only(bw_rules, current_time) ==
    /\ bw_rules # << >>
    /\ parse_ok(Head(bw_rules).start_time) /\ parse_ok(Head(bw_rules).end_time)
    /\ bw_in_time_window(current_time,
                         parse_from_str(Head(bw_rules).start_time),
                         parse_from_str(Head(bw_rules).end_time))

\* main.rs 265-281: the loop over the display rules, left at the first match;
\* a rule whose times do not parse is skipped
RECURSIVE any_bw_rule(_, _)
any_bw_rule(bw_rules, current_time) ==
    IF bw_rules = << >> THEN FALSE
    ELSE LET rule == Head(bw_rules)
         IN IF parse_ok(rule.start_time) /\ parse_ok(rule.end_time)
               /\ bw_in_time_window(current_time,
                                    parse_from_str(rule.start_time),
                                    parse_from_str(rule.end_time))
            THEN TRUE
            ELSE any_bw_rule(Tail(bw_rules), current_time)

\* main.rs 260-282
should_be_bw(config, t) ==
    IF config.manual_bw_active THEN TRUE
    ELSE any_bw_rule(config.bw_rules, time(t))

\* Faulty variant of needs_apply: the command is issued in every cycle.
needs_apply_always(current_state, target) == TRUE

\* main.rs 284
needs_apply(current_state, target) ==
    current_state = None \/ current_state[1] # target

\* What a call of set_screen_grayscale (main.rs 232-255) meets: "applied",
\* the connected display is listed and its matrix is set; "list_failed",
\* `xrandr --current` cannot be launched (main.rs 233-236); "spawn_failed",
\* the display is listed and the set command cannot be launched (main.rs
\* 244-251).
XrandrOutcomes == { "applied", "list_failed", "spawn_failed" }

\* main.rs 236: the `?` on the output of `xrandr --current` returns the error;
\* main.rs 244: `let _ =` drops the result of the spawn of the set command
set_screen_grayscale_err(outcome) == outcome = "list_failed"

\* What reading and writing /etc/hosts meets: "ok"; "unreadable",
\* fs::read_to_string returns an error (bytes that are not UTF-8, an I/O
\* error) while fs::write succeeds; "unwritable", the file is read and
\* fs::write returns an error (the process is not root).
HostsFsOutcomes == { "ok", "unreadable", "unwritable" }

\* Faulty variant of read_hosts: a read failure is not replaced by a default.
read_hosts_or_keep(content, fs) == content

\* main.rs 196: fs::read_to_string(HOSTS_PATH).unwrap_or_default()
read_hosts(content, fs) == IF fs = "unreadable" THEN << >> ELSE content

\* ------------------------------------------------------------------ state
VARIABLES
    now,            \* the clock, in ticks (Local::now())
    config_file,    \* /etc/focus/config.json: None when absent, else Some(config)
    hosts,          \* the content of /etc/hosts
    run,            \* the last run of update_hosts_file: what it read and computed
    out,            \* what the last one-shot command printed
    last_bw_state,  \* the daemon's last_bw_state: Option<bool>
    screen,         \* the color matrix of the display: None before any command set it
    xrandr,         \* the environment: what a call of set_screen_grayscale meets
    hosts_fs,       \* the environment: what reading and writing /etc/hosts meets
    cycle,          \* what the last cycle of the daemon did and logged
    allow_procs,    \* the `exception allow` processes under way, step by step
    tally           \* history: the exceptions granted on the day of the last grant

vars ==
    << now, config_file, hosts, run, out, last_bw_state, screen, xrandr,
       hosts_fs, cycle, allow_procs, tally >>

\* main.rs 64-66: "1970-01-01", the day the dates of the model count from
default_date == 0

\* main.rs 51-62
DefaultConfig ==
    [ rules |-> << >>, bw_rules |-> << >>, manual_bw_active |-> FALSE,
      exception_daily_limit |-> 2, exceptions_used_count |-> 0,
      last_exception_date |-> default_date ]

\* The fields of the JSON object the configuration file holds.
ConfigFields ==
    { "rules", "bw_rules", "manual_bw_active", "exception_daily_limit",
      "exceptions_used_count", "last_exception_date" }

\* main.rs 36-49 with 144: serde_json::from_str::<Config> on a JSON object,
\* here a function from the names of its fields.  `rules` carries no default
\* attribute, so an object without it is an error; #[serde(default)] gives a
\* missing field the Default of its type (an empty list, false, 0), and
\* #[serde(default = "default_date")] gives default_date().
from_str_ok(obj) == "rules" \in DOMAIN obj

from_str(obj) ==
    [ rules |-> obj.rules,
      bw_rules |-> IF "bw_rules" \in DOMAIN obj THEN obj.bw_rules ELSE << >>,
      manual_bw_active |->
          IF "manual_bw_active" \in DOMAIN obj THEN obj.manual_bw_active ELSE FALSE,
      exception_daily_limit |->
          IF "exception_daily_limit" \in DOMAIN obj
          THEN obj.exception_daily_limit ELSE 0,
      exceptions_used_count |->
          IF "exceptions_used_count" \in DOMAIN obj
          THEN obj.exceptions_used_count ELSE 0,
      last_exception_date |->
          IF "last_exception_date" \in DOMAIN obj
          THEN obj.last_exception_date ELSE default_date ]

\* main.rs 152: serde_json::to_string_pretty writes every field of Config
to_string_pretty(config) == [ f \in ConfigFields |-> config[f] ]

\* main.rs 139-146: whether load_config returns Ok, and the value it returns
load_ok(file) == file = None \/ from_str_ok(file[1])
load_config(file) == IF file = None THEN DefaultConfig ELSE from_str(file[1])

\* main.rs 148-155
save_config(config) == Some(to_string_pretty(config))

\* What a command printed: the command, its outcome and, for a granted
\* exception, the count of exceptions left.
Output(cmd, result, remaining) ==
    [ cmd |-> cmd, result |-> result, remaining |-> remaining ]
NoOutput == Output("none", "none", 0)

\* History of the grants: the day of the last grant, the number of grants
\* that succeeded on that day, and whether the limit was changed since the
\* first of them.
NoTally == [ day |-> 0, granted |-> 0, limit_changed |-> FALSE ]

NoRun ==
    [ ran |-> FALSE, hosts_content |-> << >>, domains_to_block |-> << >>,
      final_content |-> << >>, wrote |-> FALSE ]

\* What a cycle of the daemon did: whether the configuration loaded, whether
\* each of the two calls was made and returned an error (the two eprintln! of
\* main.rs 443 and 446), and whether set_screen_grayscale was called.
NoCycle ==
    [ ran |-> FALSE, loaded |-> FALSE, hosts_called |-> FALSE,
      hosts_err |-> FALSE, display_called |-> FALSE, display_err |-> FALSE,
      grayscale_called |-> FALSE ]

\* The bound on the `exception allow` processes that run at the same time.
MaxProcs == 2
Procs == 1..MaxProcs

\* A process that is not running, and one between two of its steps: the
\* arguments, the configuration it loaded and its `config` variable.
NoProc ==
    [ pc |-> "idle", domain |-> "", minutes |-> 0, loaded |-> DefaultConfig,
      config |-> DefaultConfig ]
NoProcs == [ p \in Procs |-> NoProc ]

\* main.rs 157-221, as a step on the hosts file: the clock is read once, the
\* file is read, and it is written only when the trimmed contents differ.
update_hosts_file(rules) ==
    IF ~rules_parse(rules)
    THEN UNCHANGED << hosts, run >>
    ELSE LET hosts_content == read_hosts(hosts, hosts_fs)
             domains == domains_to_block(rules, now)
             new_content == final_content(hosts_content, domains)
             changed == content_changed(new_content, hosts_content)
             written == changed /\ hosts_fs # "unwritable"
         IN /\ hosts' = IF written THEN new_content ELSE hosts
            /\ run' = [ ran |-> TRUE, hosts_content |-> hosts_content,
                        domains_to_block |-> domains,
                        final_content |-> new_content, wrote |-> written ]

\* main.rs 165-166 and 217: the calls whose error update_hosts_file returns
update_hosts_file_err(rules) ==
    \/ ~rules_parse(rules)
    \/ LET hosts_content == read_hosts(hosts, hosts_fs)
           new_content == final_content(hosts_content, domains_to_block(rules, now))
       IN content_changed(new_content, hosts_content) /\ hosts_fs = "unwritable"

\* ------------------------------------------- inputs of update_hosts_file
\* The lines hosts contents are made of: an empty line, foreign text, foreign
\* text ending in one or two carriage returns, the two markers, a marker with
\* white space around it, and a line that holds a marker and more.
LineChoices ==
    { << >>, << "x" >>, << "x", CR >>, << "x", CR, CR >>, << MARKER_START >>,
      << MARKER_END >>, << SP, MARKER_END, CR >>, << MARKER_START, "x" >> }

LineSeqs(n) == UNION { [1..k -> LineChoices] : k \in 0..n }
Contents(n) == { join(ls) : ls \in LineSeqs(n) }

Times == 0..(DayMinutes - 1)
Instants == 0..(TicksPerDay + MaxTicks)
\* A rule has no exception or one that ends at the start of the second day;
\* the instants lie before, at and after that moment.
ExceptionChoices == { None, Some(TicksPerDay) }
RuleChoices ==
    [ domain : Domains, start_time : Times, end_time : Times,
      exception_until : ExceptionChoices ]
RuleSeqs(n) == UNION { [1..k -> RuleChoices] : k \in 0..n }

ConfigWithRules(rules) == [DefaultConfig EXCEPT !.rules = rules]

\* A rule that is active at instant 0 and has no exception.
ActiveRule(d) ==
    [ domain |-> d, start_time |-> 0, end_time |-> 0, exception_until |-> None ]
ReconcileRuleSeqs ==
    { << >>, << ActiveRule("a.com") >>,
      << ActiveRule("b.com"), ActiveRule("a.com"), ActiveRule("b.com") >> }

\* update_hosts_file on every rule list and instant, on an empty hosts file
InitBlockSet ==
    /\ now \in Instants
    /\ config_file \in { Some(ConfigWithRules(rs)) : rs \in RuleSeqs(MaxRules) }
    /\ hosts = << >>
    /\ run = NoRun
    /\ out = NoOutput
    /\ last_bw_state = None
    /\ screen = None
    /\ xrandr = "applied"
    /\ hosts_fs = "ok"
    /\ cycle = NoCycle
    /\ allow_procs = NoProcs
    /\ tally = NoTally

\* update_hosts_file on every hosts content, for three block sets
InitReconcile ==
    /\ now = 0
    /\ config_file \in { Some(ConfigWithRules(rs)) : rs \in ReconcileRuleSeqs }
    /\ hosts \in Contents(MaxLines)
    /\ run = NoRun
    /\ out = NoOutput
    /\ last_bw_state = None
    /\ screen = None
    /\ xrandr = "applied"
    /\ hosts_fs = "ok"
    /\ cycle = NoCycle
    /\ allow_procs = NoProcs
    /\ tally = NoTally

\* One call of update_hosts_file on the rules of the configuration.
RunUpdateHosts ==
    /\ update_hosts_file(load_config(config_file).rules)
    /\ UNCHANGED << now, config_file, out, last_bw_state, screen, xrandr,
                    hosts_fs, cycle, tally,
                    allow_procs >>

SpecBlockSet == InitBlockSet /\ [][RunUpdateHosts]_vars
SpecReconcile == InitReconcile /\ [][RunUpdateHosts]_vars

\* main.rs 232-255, as a step on the display
set_screen_grayscale(enable) ==
    screen' = IF xrandr = "applied" THEN Some(enable) ELSE screen

\* main.rs 445-448 with 257-290: the daemon's call of update_screen_color and
\* its handling of the error
daemon_update_screen_color(config) ==
    LET target == should_be_bw(config, now)
    IN IF needs_apply(last_bw_state, target)
       THEN /\ set_screen_grayscale(target)
            /\ last_bw_state' = IF set_screen_grayscale_err(xrandr)
                                THEN None ELSE Some(target)
       ELSE UNCHANGED << last_bw_state, screen >>

\* main.rs 284-285: whether update_screen_color returns an error
update_screen_color_err(config) ==
    /\ needs_apply(last_bw_state, should_be_bw(config, now))
    /\ set_screen_grayscale_err(xrandr)

\* Faulty variant of after_hosts_error: an error of update_hosts_file ends
\* the cycle, as a `?` on the call would.
after_hosts_error_stop(hosts_err) == ~hosts_err

\* main.rs 442-445: the error of update_hosts_file is printed and the cycle
\* goes on to update_screen_color
after_hosts_error(hosts_err) == TRUE

\* main.rs 440-451: one cycle of the daemon
DaemonCycle ==
    /\ IF load_ok(config_file)
       THEN LET config == load_config(config_file)
                hosts_err == update_hosts_file_err(config.rules)
                go_on == after_hosts_error(hosts_err)
            IN /\ update_hosts_file(config.rules)
               /\ IF go_on
                  THEN daemon_update_screen_color(config)
                  ELSE UNCHANGED << last_bw_state, screen >>
               /\ cycle' =
                      [ ran |-> TRUE, loaded |-> TRUE, hosts_called |-> TRUE,
                        hosts_err |-> hosts_err,
                        display_called |-> go_on,
                        display_err |-> go_on /\ update_screen_color_err(config),
                        grayscale_called |->
                            go_on /\ needs_apply(last_bw_state,
                                                 should_be_bw(config, now)) ]
       ELSE /\ cycle' = [NoCycle EXCEPT !.ran = TRUE]
            /\ UNCHANGED << hosts, run, last_bw_state, screen >>
    /\ UNCHANGED << now, config_file, out, xrandr, hosts_fs, tally,
                    allow_procs >>

\* ------------------------------------------------ inputs of the window test
BwRuleChoices == [ start_time : Times, end_time : Times, enabled : {TRUE} ]
PlainRuleChoices ==
    [ domain : Domains, start_time : Times, end_time : Times,
      exception_until : {None} ]

\* One domain rule without exception and one display rule, at every instant.
InitWindow ==
    /\ now \in Instants
    /\ config_file \in
         { Some([DefaultConfig EXCEPT !.rules = << r >>, !.bw_rules = << b >>]) :
             r \in PlainRuleChoices, b \in BwRuleChoices }
    /\ hosts = << >>
    /\ run = NoRun
    /\ out = NoOutput
    /\ last_bw_state = None
    /\ screen = None
    /\ xrandr = "applied"
    /\ hosts_fs = "ok"
    /\ cycle = NoCycle
    /\ allow_procs = NoProcs
    /\ tally = NoTally

SpecWindow == InitWindow /\ [][DaemonCycle]_vars

\* -------------------------------------------- inputs of the display target
\* The display rules of the file: every window, a rule whose `enabled` is
\* false, and a rule whose start is not a time of the day.
TargetBwRules ==
    BwRuleChoices
        \cup { [ start_time |-> 0, end_time |-> 0, enabled |-> FALSE ],
               [ start_time |-> DayMinutes, end_time |-> 0, enabled |-> TRUE ] }
BwRuleSeqs(n) == UNION { [1..k -> TargetBwRules] : k \in 0..n }

\* Every list of display rules, with and without the manual override, at
\* every instant.
InitTarget ==
    /\ now \in Instants
    /\ config_file \in
         { Some([DefaultConfig EXCEPT !.bw_rules = bs, !.manual_bw_active = m]) :
             bs \in BwRuleSeqs(MaxRules), m \in BOOLEAN }
    /\ hosts = << >>
    /\ run = NoRun
    /\ out = NoOutput
    /\ last_bw_state = None
    /\ screen = None
    /\ xrandr = "applied"
    /\ hosts_fs = "ok"
    /\ cycle = NoCycle
    /\ allow_procs = NoProcs
    /\ tally = NoTally

SpecTarget == InitTarget /\ [][DaemonCycle]_vars

\* ------------------------------------------------------------ the commands
\* Faulty variant of reset_if_new_day: the counter is never reset.
reset_never(config, today) == config

\* main.rs 342-345: the lazy reset of the counter on a new day
reset_if_new_day(config, today) ==
    IF config.last_exception_date # today
    THEN [config EXCEPT !.exceptions_used_count = 0, !.last_exception_date = today]
    ELSE config

\* Faulty variant of quota_exceeded: one grant more than the limit passes.
quota_exceeded_late(config) ==
    config.exceptions_used_count > config.exception_daily_limit

\* main.rs 347
quota_exceeded(config) ==
    config.exceptions_used_count >= config.exception_daily_limit

\* Faulty variant of found_rule: the command never reports a missing rule.
found_rule_always(rules, clean_domain) == TRUE

\* main.rs 352-360: whether the loop found a rule of the domain
found_rule(rules, clean_domain) ==
    \E i \in 1..Len(rules) : rules[i].domain = clean_domain

\* Faulty variant of grant_rules: only the first rule of the domain is granted.
grant_rules_first_only(rules, clean_domain, expiry) ==
    [ i \in 1..Len(rules) |->
        IF rules[i].domain = clean_domain
           /\ \A j \in 1..(i - 1) : rules[j].domain # clean_domain
        THEN [rules[i] EXCEPT !.exception_until = Some(expiry)]
        ELSE rules[i] ]

\* main.rs 355-360: the expiry is set on every rule of the domain
grant_rules(rules, clean_domain, expiry) ==
    [ i \in 1..Len(rules) |->
        IF rules[i].domain = clean_domain
        THEN [rules[i] EXCEPT !.exception_until = Some(expiry)]
        ELSE rules[i] ]

\* Faulty variant of retain_other: only the first rule of the domain goes.
retain_all_but_first(rules, clean_domain) ==
    LET hits == { i \in 1..Len(rules) : rules[i].domain = clean_domain }
    IN IF hits = {} THEN rules
       ELSE LET first == CHOOSE i \in hits : \A j \in hits : i <= j
            IN SubSeq(rules, 1, first - 1) \o SubSeq(rules, first + 1, Len(rules))

\* main.rs 317
retain_other(rules, clean_domain) ==
    SelectSeq(rules, LAMBDA r : r.domain # clean_domain)

\* main.rs 297, 314, 329, 402: the `?` on load_config ends the command with
\* the error
LoadError(cmd) ==
    /\ out' = Output(cmd, "load_error", 0)
    /\ UNCHANGED << now, config_file, hosts, run, last_bw_state, screen, xrandr,
                    hosts_fs, cycle, tally,
                    allow_procs >>

\* main.rs 296-311: `add <domain> <start> <end>`
Add(domain, start, end) ==
    IF ~load_ok(config_file) THEN LoadError("add") ELSE
    LET config == load_config(config_file)
        clean_domain == normalize_domain(domain)
        rule == [ domain |-> clean_domain, start_time |-> start,
                  end_time |-> end, exception_until |-> None ]
    IN /\ Len(config.rules) < MaxRules
       /\ IF parse_ok(start) /\ parse_ok(end)
          THEN /\ config_file' = save_config([config EXCEPT !.rules = Append(@, rule)])
               /\ out' = Output("add", "added", 0)
          ELSE /\ out' = Output("add", "bad_time", 0)
               /\ UNCHANGED config_file
       /\ UNCHANGED << now, hosts, run, last_bw_state, screen, xrandr,
                    hosts_fs, cycle, tally,
                    allow_procs >>

\* main.rs 313-326: `remove <domain>`
Remove(domain) ==
    IF ~load_ok(config_file) THEN LoadError("remove") ELSE
    LET config == load_config(config_file)
        clean_domain == normalize_domain(domain)
        kept == retain_other(config.rules, clean_domain)
    IN /\ IF Len(kept) < Len(config.rules)
          THEN /\ config_file' = save_config([config EXCEPT !.rules = kept])
               /\ out' = Output("remove", "removed", 0)
               /\ update_hosts_file(kept)
          ELSE /\ out' = Output("remove", "not_found", 0)
               /\ UNCHANGED << config_file, hosts, run >>
       /\ UNCHANGED << now, last_bw_state, screen, xrandr,
                    hosts_fs, cycle, tally,
                    allow_procs >>

\* main.rs 332-336: `exception set-limit <n>`
SetLimit(limit) ==
    IF ~load_ok(config_file) THEN LoadError("set-limit") ELSE
    LET config == load_config(config_file)
    IN /\ config_file' = save_config([config EXCEPT !.exception_daily_limit = limit])
       /\ out' = Output("set-limit", "set", 0)
       /\ tally' = [tally EXCEPT !.limit_changed =
                        @ \/ limit # config.exception_daily_limit]
       /\ UNCHANGED << now, hosts, run, last_bw_state, screen, xrandr, hosts_fs, cycle,
                    allow_procs >>

\* main.rs 337-373: `exception allow <domain> <minutes>`
Allow(domain, minutes) ==
    IF ~load_ok(config_file) THEN LoadError("allow") ELSE
    LET clean_domain == normalize_domain(domain)
        today == format_date(now)
        config == reset_if_new_day(load_config(config_file), today)
        expiry == now + minutes_duration(minutes)
    IN /\ IF quota_exceeded(config)
          THEN /\ out' = Output("allow", "quota_exceeded", 0)
               /\ UNCHANGED << config_file, hosts, run, tally >>
          ELSE IF found_rule(config.rules, clean_domain)
          THEN LET granted ==
                     [config EXCEPT
                        !.rules = grant_rules(@, clean_domain, expiry),
                        !.exceptions_used_count = @ + 1]
               IN /\ config_file' = save_config(granted)
                  /\ out' = Output("allow", "granted",
                                   granted.exception_daily_limit
                                       - granted.exceptions_used_count)
                  /\ update_hosts_file(granted.rules)
                  /\ tally' = IF tally.day = today /\ tally.granted > 0
                              THEN [tally EXCEPT !.granted = @ + 1]
                              ELSE [ day |-> today, granted |-> 1,
                                     limit_changed |-> FALSE ]
          ELSE /\ out' = Output("allow", "no_rule", 0)
               /\ UNCHANGED << config_file, hosts, run, tally >>
       /\ UNCHANGED << now, last_bw_state, screen, xrandr, hosts_fs, cycle,
                    allow_procs >>

\* The clock advances.
Tick ==
    /\ now < TicksPerDay + MaxTicks
    /\ now' = now + 1
    /\ UNCHANGED << config_file, hosts, run, out, last_bw_state, screen, xrandr,
                    hosts_fs, cycle, tally,
                    allow_procs >>

\* The hosts files the system starts from: one foreign line, and two foreign
\* lines of which the first ends in two carriage returns.
SystemHosts ==
    { << "x", NL >>, << "x", CR, CR, NL, "x", NL >> }

\* Someone else rewrites the hosts file.
EditHosts ==
    /\ hosts' \in SystemHosts \ {hosts}
    /\ UNCHANGED << now, config_file, run, out, last_bw_state, screen, xrandr,
                    hosts_fs, cycle, tally,
                    allow_procs >>

\* The first day after the date the default configuration carries, no
\* configuration file, the daemon not yet in its first cycle.
Init ==
    /\ now = TicksPerDay
    /\ config_file = None
    /\ hosts \in SystemHosts
    /\ run = NoRun
    /\ out = NoOutput
    /\ last_bw_state = None
    /\ screen = None
    /\ xrandr = "applied"
    /\ hosts_fs = "ok"
    /\ cycle = NoCycle
    /\ allow_procs = NoProcs
    /\ tally = NoTally

\* The one-shot commands that read or write the quota, one after another, on
\* a hosts file of one line; the rules added are active at 00:00 only.
InitQuota == Init /\ hosts = << "x", NL >>

\* The arguments of `exception allow`: a name without a dot and one with a
\* dot, a negative and a positive number of minutes.
AllowNames == {"a", "b.com"}
AllowMinutes == {-1, MaxMinutes}

NextQuota ==
    \/ \E d \in {"a", "b.com"}, s \in {0, DayMinutes} : Add(d, s, 0)
    \/ \E d \in {"a", "b.com"} : Remove(d)
    \/ \E l \in 0..MaxLimit : SetLimit(l)
    \/ \E d \in AllowNames, m \in AllowMinutes : Allow(d, m)
    \/ Tick

SpecQuota == InitQuota /\ [][NextQuota]_vars

\* The daemon, with the commands that change what it blocks and someone
\* else editing the hosts file; the rules added are rules of one domain, end
\* at 00:00 and start there or later in the day, so that they wrap past
\* midnight.
NextDaemon ==
    \/ \E s \in Times : Add("a", s, 0)
    \/ Allow("a", MaxMinutes)
    \/ DaemonCycle
    \/ Tick
    \/ EditHosts

SpecDaemon == Init /\ [][NextDaemon]_vars

\* ------------------------------------------------- the display commands
\* What a display command prints: main.rs 408, 414, 432, the `?` on
\* set_screen_grayscale ends the command with the error, after the save.
BwOutput(cmd) ==
    Output(cmd, IF set_screen_grayscale_err(xrandr) THEN "xrandr_error" ELSE "ok", 0)

\* main.rs 404-409: `bw on`
BwOn ==
    IF ~load_ok(config_file) THEN LoadError("bw on") ELSE
    LET config == load_config(config_file)
    IN /\ config_file' = save_config([config EXCEPT !.manual_bw_active = TRUE])
       /\ set_screen_grayscale(TRUE)
       /\ out' = BwOutput("bw on")
       /\ UNCHANGED << now, hosts, run, last_bw_state, xrandr, hosts_fs, cycle, tally,
                    allow_procs >>

\* main.rs 410-415: `bw off`
BwOff ==
    IF ~load_ok(config_file) THEN LoadError("bw off") ELSE
    LET config == load_config(config_file)
    IN /\ config_file' = save_config([config EXCEPT !.manual_bw_active = FALSE])
       /\ set_screen_grayscale(FALSE)
       /\ out' = BwOutput("bw off")
       /\ UNCHANGED << now, hosts, run, last_bw_state, xrandr, hosts_fs, cycle, tally,
                    allow_procs >>

\* main.rs 416-426: `bw rule <start> <end>`
BwRuleCmd(start, end) ==
    IF ~load_ok(config_file) THEN LoadError("bw rule") ELSE
    LET config == load_config(config_file)
        rule == [ start_time |-> start, end_time |-> end, enabled |-> TRUE ]
    IN /\ Len(config.bw_rules) < MaxRules
       /\ IF parse_ok(start) /\ parse_ok(end)
          THEN /\ config_file' = save_config([config EXCEPT !.bw_rules = Append(@, rule)])
               /\ out' = Output("bw rule", "added", 0)
          ELSE /\ out' = Output("bw rule", "bad_time", 0)
               /\ UNCHANGED config_file
       /\ UNCHANGED << now, hosts, run, last_bw_state, screen, xrandr, hosts_fs,
                       cycle, tally,
                    allow_procs >>

\* main.rs 427-433: `bw clear`
BwClear ==
    IF ~load_ok(config_file) THEN LoadError("bw clear") ELSE
    LET config == load_config(config_file)
    IN /\ config_file' = save_config([config EXCEPT !.bw_rules = << >>,
                                                     !.manual_bw_active = FALSE])
       /\ set_screen_grayscale(FALSE)
       /\ out' = BwOutput("bw clear")
       /\ UNCHANGED << now, hosts, run, last_bw_state, xrandr, hosts_fs, cycle, tally,
                    allow_procs >>

\* The display server, the displays or the xrandr binary change.
SetXrandr ==
    /\ xrandr' \in XrandrOutcomes \ {xrandr}
    /\ UNCHANGED << now, config_file, hosts, run, out, last_bw_state, screen,
                    hosts_fs, cycle, tally,
                    allow_procs >>

\* The daemon and the display commands next to it, on a display on which
\* every command succeeds; the rules added hold 00:00 only, or all of the
\* day but 00:00.
NextBw ==
    \/ BwOn
    \/ BwOff
    \/ \E st \in Times \cup {DayMinutes} : BwRuleCmd(st, 0)
    \/ BwClear
    \/ DaemonCycle
    \/ Tick

SpecBw == InitQuota /\ [][NextBw]_vars

\* The same, on a display whose commands can fail.
NextDisplay ==
    \/ NextBw
    \/ SetXrandr

SpecDisplay == InitQuota /\ [][NextDisplay]_vars

\* ------------------------------------------------ the daemon under faults
\* The configuration files of the faulty runs: a rule that is active at
\* 00:00, the manual override without rules, a rule whose start is not a time
\* of the day (update_hosts_file returns the error of main.rs 165), and a JSON
\* object without `rules` (load_config returns the error of main.rs 144).
FaultConfigs ==
    { save_config(ConfigWithRules(<< ActiveRule("a.com") >>)),
      save_config([DefaultConfig EXCEPT !.manual_bw_active = TRUE]),
      save_config(ConfigWithRules(<< [ActiveRule("a.com") EXCEPT
                                        !.start_time = DayMinutes] >>)),
      Some([ bw_rules |-> << >> ]) }

\* Someone edits the configuration file.
EditConfig ==
    /\ config_file' \in FaultConfigs \ {config_file}
    /\ UNCHANGED << now, hosts, run, out, last_bw_state, screen, xrandr,
                    hosts_fs, cycle, tally,
                    allow_procs >>

\* The hosts file changes its content type or its permissions.
SetHostsFs ==
    /\ hosts_fs' \in HostsFsOutcomes \ {hosts_fs}
    /\ UNCHANGED << now, config_file, hosts, run, out, last_bw_state, screen,
                    xrandr, cycle, tally,
                    allow_procs >>

InitFaults ==
    /\ now = TicksPerDay
    /\ config_file \in FaultConfigs
    /\ hosts \in SystemHosts
    /\ run = NoRun
    /\ out = NoOutput
    /\ last_bw_state = None
    /\ screen = None
    /\ xrandr \in XrandrOutcomes
    /\ hosts_fs \in HostsFsOutcomes
    /\ cycle = NoCycle
    /\ allow_procs = NoProcs
    /\ tally = NoTally

NextFaults ==
    \/ DaemonCycle
    \/ EditConfig
    \/ EditHosts
    \/ SetHostsFs
    \/ SetXrandr

SpecFaults == InitFaults /\ [][NextFaults]_vars

\* ------------------------------------------- inputs of the configuration
\* A configuration none of whose fields has the value a default gives it.
FullConfig ==
    [ rules |-> << ActiveRule("a.com") >>,
      bw_rules |-> << [ start_time |-> 0, end_time |-> 0, enabled |-> TRUE ] >>,
      manual_bw_active |-> TRUE,
      exception_daily_limit |-> 1,
      exceptions_used_count |-> 1,
      last_exception_date |-> 1 ]

\* The JSON objects that hold some of the fields of FullConfig.
JsonObjects ==
    { [ f \in fs |-> FullConfig[f] ] : fs \in SUBSET ConfigFields }

\* Every such configuration file, and no file.
InitConfig ==
    /\ now = TicksPerDay
    /\ config_file \in {None} \cup { Some(obj) : obj \in JsonObjects }
    /\ hosts = << "x", NL >>
    /\ run = NoRun
    /\ out = NoOutput
    /\ last_bw_state = None
    /\ screen = None
    /\ xrandr = "applied"
    /\ hosts_fs = "ok"
    /\ cycle = NoCycle
    /\ allow_procs = NoProcs
    /\ tally = NoTally

\* Commands that load the configuration and save what they loaded with one
\* field set.
NextConfig ==
    \/ BwOn
    \/ BwOff
    \/ \E l \in 0..MaxLimit : SetLimit(l)

SpecConfig == InitConfig /\ [][NextConfig]_vars

\* ------------------------------------------------------ inputs of remove
\* Rules of the two domains whose windows end at 00:00, up to one rule more
\* than `add` is taken to, so that two rules can stay when one goes.
RemoveRuleChoices ==
    [ domain : Domains, start_time : Times, end_time : {0},
      exception_until : {None} ]
RemoveRuleSeqs == UNION { [1..k -> RemoveRuleChoices] : k \in 0..(MaxRules + 1) }

\* The hosts file holds one foreign line, alone or before the managed block
\* of both domains.
RemoveHosts ==
    { << "x", NL >>,
      join(<< << "x" >> >> \o managed_block(DomainsAscending)) }

\* At 00:00:00, when every rule is in its window, and one tick later, when
\* none is.
InitRemove ==
    /\ now \in { TicksPerDay, TicksPerDay + 1 }
    /\ config_file \in { save_config(ConfigWithRules(rs)) : rs \in RemoveRuleSeqs }
    /\ hosts \in RemoveHosts
    /\ run = NoRun
    /\ out = NoOutput
    /\ last_bw_state = None
    /\ screen = None
    /\ xrandr = "applied"
    /\ hosts_fs = "ok"
    /\ cycle = NoCycle
    /\ allow_procs = NoProcs
    /\ tally = NoTally

NextRemove ==
    \/ \E d \in Names : Remove(d)
    \/ \E d \in Names, st \in Times : Add(d, st, 0)

SpecRemove == InitRemove /\ [][NextRemove]_vars

\* ------------------------------- `exception allow` as concurrent processes
\* Each process runs main.rs 329-369 in three steps; between the steps the
\* other processes run, and nothing locks the configuration file.

\* main.rs 329: the process starts and loads the configuration
AllowLoad(p, domain, minutes) ==
    /\ allow_procs[p].pc = "idle"
    /\ IF ~load_ok(config_file)
       THEN /\ out' = Output("allow", "load_error", 0)
            /\ UNCHANGED allow_procs
       ELSE /\ allow_procs' =
                  [allow_procs EXCEPT ![p] =
                      [ pc |-> "loaded", domain |-> domain, minutes |-> minutes,
                        loaded |-> load_config(config_file),
                        config |-> load_config(config_file) ]]
            /\ UNCHANGED out
    /\ UNCHANGED << now, config_file, hosts, run, last_bw_state, screen, xrandr,
                    hosts_fs, cycle, tally >>

\* main.rs 338-363: the reset, the quota check and the grant, on the
\* process's own copy of the configuration
AllowCheck(p) ==
    LET proc == allow_procs[p]
        clean_domain == normalize_domain(proc.domain)
        today == format_date(now)
        config == reset_if_new_day(proc.config, today)
        expiry == now + minutes_duration(proc.minutes)
    IN /\ proc.pc = "loaded"
       /\ IF quota_exceeded(config)
          THEN /\ out' = Output("allow", "quota_exceeded", 0)
               /\ allow_procs' = [allow_procs EXCEPT ![p] = NoProc]
          ELSE IF found_rule(config.rules, clean_domain)
          THEN /\ allow_procs' =
                     [allow_procs EXCEPT ![p] =
                         [proc EXCEPT
                            !.pc = "granted",
                            !.config =
                                [config EXCEPT
                                   !.rules = grant_rules(@, clean_domain, expiry),
                                   !.exceptions_used_count = @ + 1]]]
               /\ UNCHANGED out
          ELSE /\ out' = Output("allow", "no_rule", 0)
               /\ allow_procs' = [allow_procs EXCEPT ![p] = NoProc]
       /\ UNCHANGED << now, config_file, hosts, run, last_bw_state, screen, xrandr,
                       hosts_fs, cycle, tally >>

\* main.rs 364-369: the save, the message and the reconciliation
AllowSave(p) ==
    LET proc == allow_procs[p]
        granted == proc.config
        today == granted.last_exception_date
    IN /\ proc.pc = "granted"
       /\ config_file' = save_config(granted)
       /\ out' = Output("allow", "granted",
                        granted.exception_daily_limit - granted.exceptions_used_count)
       /\ update_hosts_file(granted.rules)
       /\ tally' = IF tally.day = today /\ tally.granted > 0
                   THEN [tally EXCEPT !.granted = @ + 1]
                   ELSE [ day |-> today, granted |-> 1, limit_changed |-> FALSE ]
       /\ allow_procs' = [allow_procs EXCEPT ![p] = NoProc]
       /\ UNCHANGED << now, last_bw_state, screen, xrandr, hosts_fs, cycle >>

NextRace ==
    \/ \E p \in Procs, d \in {"a", "b.com"} : AllowLoad(p, d, MaxMinutes)
    \/ \E p \in Procs : AllowCheck(p)
    \/ \E p \in Procs : AllowSave(p)

\* Two rules, no exception used today, under every limit `exception
\* set-limit` is taken to.
InitRace ==
    /\ now = TicksPerDay
    /\ config_file \in
         { save_config([ConfigWithRules(<< ActiveRule("a.com"), ActiveRule("b.com") >>)
                          EXCEPT !.exception_daily_limit = l,
                                 !.last_exception_date = format_date(TicksPerDay)]) :
             l \in 0..MaxLimit }
    /\ hosts = << "x", NL >>
    /\ run = NoRun
    /\ out = NoOutput
    /\ last_bw_state = None
    /\ screen = None
    /\ xrandr = "applied"
    /\ hosts_fs = "ok"
    /\ cycle = NoCycle
    /\ allow_procs = NoProcs
    /\ tally = NoTally

SpecRace == InitRace /\ [][NextRace]_vars

\* ================================================================= claims
\* ------------------------------------------------ notions the claims use
Range(f) == { f[i] : i \in DOMAIN f }
Config == load_config(config_file)
TimeOfDay == now % TicksPerDay

\* The ticks of the day inside the window from minute s to minute e.
WindowTicks(s, e) ==
    IF s <= e
    THEN (s * TicksPerMinute)..(e * TicksPerMinute)
    ELSE ((s * TicksPerMinute)..(TicksPerDay - 1)) \cup (0..(e * TicksPerMinute))

\* A rule is suspended when it has an exception that ends after the instant.
Suspended(rule, t) ==
    rule.exception_until # None /\ rule.exception_until[1] > t

\* The domains that at least one rule blocks at instant t.
DomainsBlockedAt(rules, t) ==
    { d \in Domains :
        \E i \in 1..Len(rules) :
            /\ rules[i].domain = d
            /\ (t % TicksPerDay) \in WindowTicks(rules[i].start_time, rules[i].end_time)
            /\ ~Suspended(rules[i], t) }

StrictlyAscending(ds) ==
    \A i, j \in 1..Len(ds) : i < j => rank(ds[i]) < rank(ds[j])

\* A marker line: the marker and nothing but white space around it.
NonBlank(tok) == tok \notin {NL, CR, SP}
IsStartLine(l) == SelectSeq(l, NonBlank) = << MARKER_START >>
IsEndLine(l) == SelectSeq(l, NonBlank) = << MARKER_END >>
IsMarkerLine(l) == IsStartLine(l) \/ IsEndLine(l)
MarkerIdx(ls) == { i \in 1..Len(ls) : IsMarkerLine(ls[i]) }
Max(S) == CHOOSE m \in S : \A x \in S : x <= m

\* The lines outside every managed region: not a marker, and the nearest
\* marker before the line, if there is one, is an end marker.
OutsideIdx(ls) ==
    { i \in 1..Len(ls) :
        /\ ~IsMarkerLine(ls[i])
        /\ LET before == { j \in MarkerIdx(ls) : j < i }
           IN before = {} \/ IsEndLine(ls[Max(before)]) }

\* The lines of ls at the indexes I, in their order.
Nth(I, k) == CHOOSE i \in I : Cardinality({ j \in I : j <= i }) = k
Pick(ls, I) == [ k \in 1..Cardinality(I) |-> ls[Nth(I, k)] ]

\* Every line followed by a line feed.
RECURSIVE Terminated(_)
Terminated(ls) ==
    IF ls = << >> THEN << >> ELSE Head(ls) \o << NL >> \o Terminated(Tail(ls))

\* The pieces of a content between its line feeds.
RECURSIVE SplitNL(_, _)
SplitNL(s, cur) ==
    IF s = << >> THEN << cur >>
    ELSE IF Head(s) = NL THEN << cur >> \o SplitNL(Tail(s), << >>)
    ELSE SplitNL(Tail(s), Append(cur, Head(s)))

\* The managed block of the domains ds, line by line.
BlockLines(ds) ==
    [ i \in 1..(2 * Len(ds) + 2) |->
        IF i = 1 THEN << MARKER_START >>
        ELSE IF i = 2 * Len(ds) + 2 THEN << MARKER_END >>
        ELSE IF i % 2 = 0 THEN << LOOPBACK, SP, ds[i \div 2] >>
        ELSE << LOOPBACK, SP, WWW, ds[i \div 2] >> ]

\* C1: the block set update_hosts_file computes holds a domain iff some rule
\* of that domain has the instant's time of day in its window and is not
\* suspended; it holds each domain once, in ascending order, whatever the
\* order of the rules.
C1_BlockSet ==
    run.ran =>
        /\ Range(run.domains_to_block) = DomainsBlockedAt(Config.rules, now)
        /\ StrictlyAscending(run.domains_to_block)

\* Two active rules of one domain behind an active rule of a greater domain,
\* and a suspended rule at its expiry: the block set is sorted and deduplicated.
C1_Witness ==
    /\ run.ran
    /\ Len(Config.rules) = 2
    /\ Config.rules[1].domain = "b.com"
    /\ Config.rules[2].domain = "a.com"
    /\ Config.rules[2].exception_until = Some(now)
    /\ run.domains_to_block = << "a.com", "b.com" >>

\* C2: the window test holds iff s <= t <= e when s <= e, and iff t >= s or
\* t <= e when s > e, both ends included, so that [s,s] holds at s only; the
\* domain rules and the display rules are tested the same way.
C2_WindowTest ==
    LET r == Config.rules[1]
        b == Config.bw_rules[1]
        inR == TimeOfDay \in WindowTicks(r.start_time, r.end_time)
        inB == TimeOfDay \in WindowTicks(b.start_time, b.end_time)
    IN /\ in_time_window(TimeOfDay, parse_from_str(r.start_time),
                         parse_from_str(r.end_time)) <=> inR
       /\ bw_in_time_window(TimeOfDay, parse_from_str(b.start_time),
                            parse_from_str(b.end_time)) <=> inB
       /\ r.start_time = r.end_time =>
              (inR <=> TimeOfDay = r.start_time * TicksPerMinute)
       /\ run.ran => ((run.domains_to_block = << r.domain >>) <=> inR)
       /\ last_bw_state # None => (last_bw_state[1] <=> inB)

\* A window that wraps past midnight holds after midnight, up to its end.
C2_Witness ==
    LET r == Config.rules[1]
        b == Config.bw_rules[1]
    IN /\ r.start_time > r.end_time
       /\ b.start_time > b.end_time
       /\ TimeOfDay = r.end_time * TicksPerMinute
       /\ TimeOfDay = b.end_time * TicksPerMinute
       /\ run.ran
       /\ run.domains_to_block = << r.domain >>
       /\ last_bw_state = Some(TRUE)

C4_Idempotent ==
    [][ (RunUpdateHosts /\ run.ran /\ hosts = run.final_content)
            => ~run'.wrote ]_vars

\* C5: the new content holds exactly one managed block when the block set is
\* not empty and no marker line when it is empty; the block is the start
\* marker, the two lines of each blocked domain in ascending order and the
\* end marker, whatever the old blocks held; a region that is not closed is
\* dropped up to the end of the file.
C5_OneFreshBlock ==
    run.ran =>
        LET outl == SplitNL(run.final_content, << >>)
            inl == lines(run.hosts_content)
            ds == SelectSeq(DomainsAscending,
                            LAMBDA d : d \in Range(run.domains_to_block))
            n == 2 * Len(ds) + 2
        IN /\ IF run.domains_to_block = << >>
              THEN MarkerIdx(outl) = {}
              ELSE /\ Len(outl) >= n
                   /\ SubSeq(outl, Len(outl) - n + 1, Len(outl)) = BlockLines(ds)
                   /\ MarkerIdx(outl) = { Len(outl) - n + 1, Len(outl) }
           /\ (MarkerIdx(inl) # {} /\ IsStartLine(inl[Max(MarkerIdx(inl))])) =>
                  run.final_content =
                      join(scan_lines(SubSeq(inl, 1, Max(MarkerIdx(inl)) - 1),
                                      FALSE, << >>)
                           \o (IF ds = << >> THEN << >> ELSE BlockLines(ds)))

\* A stray end marker, then a region that is never closed.
C5_Witness ==
    /\ run.ran
    /\ run.hosts_content =
         << MARKER_END, NL, "x", NL, MARKER_START, NL, "x" >>
    /\ run.final_content =
         << "x", NL, MARKER_START, NL, LOOPBACK, SP, "a.com", NL,
            LOOPBACK, SP, WWW, "a.com", NL, MARKER_END >>

\* ---------------------------------------------- notions of the later claims
Today == format_date(now)

\* The grants that succeeded today, and whether the limit is the one they
\* were granted under.
GrantsToday == IF tally.day = Today THEN tally.granted ELSE 0
LimitStable == tally.day # Today \/ ~tally.limit_changed

\* The usage counter a command of today works with: 0 when the persisted
\* date is another day.
UsedToday ==
    IF Config.last_exception_date = Today THEN Config.exceptions_used_count ELSE 0

\* The name with ".com" added when it has no dot.
Normalized(d) == IF d \in DottedNames THEN d ELSE format_com(d)
HasRuleOf(d) == \E i \in 1..Len(Config.rules) : Config.rules[i].domain = d

\* The two lines of domain d stand between a start and an end marker line.
InManagedBlock(content, d) ==
    LET ls == SplitNL(content, << >>)
    IN \E i, j, k \in 1..Len(ls) :
           /\ i < j /\ j + 1 < k
           /\ IsStartLine(ls[i])
           /\ ls[j] = << LOOPBACK, SP, d >>
           /\ ls[j + 1] = << LOOPBACK, SP, WWW, d >>
           /\ IsEndLine(ls[k])
HasLineOf(content, d) ==
    \E i \in 1..Len(content) : content[i] = d

\* The file is as the last run of update_hosts_file left it.
HostsUntouched ==
    run.ran /\ hosts = IF run.wrote THEN run.final_content ELSE run.hosts_content

\* C6: a run writes the hosts file iff the trimmed new content differs from
\* the trimmed content read; so a daemon cycle that finds the file as the
\* last run left it, and computes the same block set, writes nothing.
C6_WriteOnlyOnChange ==
    [][ DaemonCycle =>
          /\ run'.wrote <=> trim(run'.final_content) # trim(hosts)
          /\ hosts' = IF run'.wrote THEN run'.final_content ELSE hosts
          /\ (HostsUntouched /\ run.domains_to_block = run'.domains_to_block)
                 => ~run'.wrote ]_vars

\* The first half of C6 alone: the file is written iff the trimmed contents
\* differ.
C6_WriteIffChanged ==
    [][ DaemonCycle =>
          /\ run'.wrote <=> trim(run'.final_content) # trim(hosts)
          /\ hosts' = IF run'.wrote THEN run'.final_content ELSE hosts ]_vars

\* C7: with the limit unchanged, the grants that succeed on one day never
\* exceed exception_daily_limit: once that many succeeded, an `exception
\* allow` fails with the quota outcome and leaves the configuration as it is.
C7_QuotaHolds ==
    [][ /\ LimitStable' => GrantsToday' <= Config'.exception_daily_limit
        /\ \A d \in AllowNames, m \in AllowMinutes :
             (Allow(d, m) /\ LimitStable
                  /\ GrantsToday >= Config.exception_daily_limit)
                 => /\ out'.result = "quota_exceeded"
                    /\ config_file' = config_file ]_vars

\* Two grants under the default limit of 2, and then a refused one.
C7_Witness ==
    /\ tally.day = Today
    /\ ~tally.limit_changed
    /\ tally.granted = 2
    /\ Config.exception_daily_limit = 2
    /\ Config.exceptions_used_count = 2
    /\ out.result = "quota_exceeded"

\* C8: an `exception allow` that fails, the quota being used up or no rule
\* having the normalized domain, leaves the configuration file and the hosts
\* file as they are.
C8_FailedAllowKeepsState ==
    [][ \A d \in AllowNames, m \in AllowMinutes :
          (Allow(d, m)
               /\ (UsedToday >= Config.exception_daily_limit
                       \/ ~HasRuleOf(Normalized(d))))
              => /\ config_file' = config_file
                 /\ hosts' = hosts
                 /\ out'.result =
                        IF UsedToday >= Config.exception_daily_limit
                        THEN "quota_exceeded" ELSE "no_rule" ]_vars

\* A refused command on a new day: the reset of the counter and of the date
\* is not persisted.
C8_Witness ==
    /\ out.result = "quota_exceeded"
    /\ Config.exception_daily_limit = 0
    /\ Config.exceptions_used_count = 1
    /\ Config.last_exception_date # Today
    /\ Config.rules # << >>

\* C9: an `exception allow` that succeeds sets exception_until to now +
\* minutes on every rule of the normalized domain and on no other rule, adds
\* 1 to the usage counter of the day whatever the number of rules, and
\* reports the limit minus the new count.
C9_GrantEffect ==
    [][ \A d \in AllowNames, m \in AllowMinutes :
          (Allow(d, m)
               /\ UsedToday < Config.exception_daily_limit
               /\ HasRuleOf(Normalized(d)))
              => /\ Len(Config'.rules) = Len(Config.rules)
                 /\ \A i \in 1..Len(Config.rules) :
                        Config'.rules[i] =
                            IF Config.rules[i].domain = Normalized(d)
                            THEN [Config.rules[i] EXCEPT
                                    !.exception_until = Some(now + m * TicksPerMinute)]
                            ELSE Config.rules[i]
                 /\ Config'.exceptions_used_count = UsedToday + 1
                 /\ Config'.last_exception_date = Today
                 /\ Config'.exception_daily_limit = Config.exception_daily_limit
                 /\ out'.result = "granted"
                 /\ out'.remaining =
                        Config.exception_daily_limit - (UsedToday + 1) ]_vars

\* One grant on two rules of a domain, the second grant of the day.
C9_Witness ==
    /\ out.result = "granted"
    /\ out.remaining = 0
    /\ Config.exceptions_used_count = 2
    /\ Len(Config.rules) = 2
    /\ Config.rules[1].domain = Config.rules[2].domain
    /\ Config.rules[1].exception_until = Some(now + TicksPerMinute)
    /\ Config.rules[2].exception_until = Some(now + TicksPerMinute)

\* C10: with every rule of a domain carrying the expiry e of a grant and one
\* of them in its window, a reconciliation before e leaves the domain out of
\* the block set and of the hosts file, and a reconciliation at e or later
\* puts it into the block set and the managed block; the configuration is
\* not changed by it.
C10_SelfExpiry ==
    [][ DaemonCycle =>
          \A i \in 1..Len(Config.rules) :
              LET rule == Config.rules[i]
                  same == { j \in 1..Len(Config.rules) :
                              Config.rules[j].domain = rule.domain }
              IN (/\ rule.exception_until # None
                  /\ \A j \in same :
                         Config.rules[j].exception_until = rule.exception_until
                  /\ \E j \in same :
                         TimeOfDay \in WindowTicks(Config.rules[j].start_time,
                                                   Config.rules[j].end_time))
                 => /\ config_file' = config_file
                    /\ IF now < rule.exception_until[1]
                       THEN /\ rule.domain \notin Range(run'.domains_to_block)
                            /\ ~HasLineOf(hosts', rule.domain)
                       ELSE /\ rule.domain \in Range(run'.domains_to_block)
                            /\ InManagedBlock(hosts', rule.domain) ]_vars

\* After a grant the daemon ran past the expiry: the domain is blocked again
\* while the rule still carries the expiry.
C10_Witness ==
    /\ out.result = "granted"
    /\ run.ran
    /\ Len(Config.rules) = 1
    /\ Config.rules[1].exception_until = Some(now)
    /\ run.domains_to_block = << Config.rules[1].domain >>
    /\ InManagedBlock(hosts, Config.rules[1].domain)

\* -------------------------------------------- notions of the display claims
\* A display rule has a window when its two times are times of the day.
HasWindow(b) == b.start_time \in 0..(DayMinutes - 1) /\ b.end_time \in 0..(DayMinutes - 1)

\* The target the configuration asks for at instant t: the manual override,
\* or some display rule whose window holds the time of day.
TargetAt(config, t) ==
    \/ config.manual_bw_active
    \/ \E i \in 1..Len(config.bw_rules) :
           /\ HasWindow(config.bw_rules[i])
           /\ (t % TicksPerDay) \in WindowTicks(config.bw_rules[i].start_time,
                                                config.bw_rules[i].end_time)
Target == TargetAt(Config, now)

Reverse(q) == [ i \in 1..Len(q) |-> q[Len(q) + 1 - i] ]

\* C11: the display target is true whenever the manual override is true;
\* without the override it is true iff the window of at least one display
\* rule holds the time of day, in whatever order the rules stand, and false
\* when there is no display rule; it is the state a daemon cycle applies.
C11_DisplayTarget ==
    /\ should_be_bw(Config, now) <=> Target
    /\ Config.manual_bw_active => should_be_bw(Config, now)
    /\ (~Config.manual_bw_active /\ Config.bw_rules = << >>)
           => ~should_be_bw(Config, now)
    /\ should_be_bw([Config EXCEPT !.bw_rules = Reverse(@)], now)
           <=> should_be_bw(Config, now)
    /\ cycle.ran => (last_bw_state = Some(Target) /\ screen = Some(Target))

\* No override, and the second of two display rules is the one whose window
\* holds the time of day.
C11_Witness ==
    /\ cycle.ran
    /\ ~Config.manual_bw_active
    /\ Len(Config.bw_rules) = 2
    /\ HasWindow(Config.bw_rules[1])
    /\ TimeOfDay \notin WindowTicks(Config.bw_rules[1].start_time,
                                    Config.bw_rules[1].end_time)
    /\ last_bw_state = Some(TRUE)
    /\ screen = Some(TRUE)

\* The daemon's last_bw_state is unknown or differs from the target.
UnknownOrDiffers == last_bw_state = None \/ last_bw_state[1] # Target

\* C12: a daemon cycle issues the grayscale command iff last_bw_state is
\* unknown or differs from the target it computes; after an issue that
\* returns no error last_bw_state is the target, and a cycle without an issue
\* leaves last_bw_state and the display alone; the first cycle issues it.
C12_IssueOnChange ==
    [][ DaemonCycle =>
          /\ cycle'.grayscale_called <=> UnknownOrDiffers
          /\ (cycle'.grayscale_called /\ ~cycle'.display_err)
                 => last_bw_state' = Some(Target)
          /\ ~cycle'.grayscale_called
                 => (last_bw_state' = last_bw_state /\ screen' = screen)
          /\ ~cycle.ran => cycle'.grayscale_called ]_vars

\* A cycle that issues nothing: a display rule holds the time of day and the
\* target is the state the daemon applied before.
C12_Witness ==
    /\ cycle.ran
    /\ ~cycle.grayscale_called
    /\ ~Config.manual_bw_active
    /\ Config.bw_rules # << >>
    /\ Target
    /\ last_bw_state = Some(TRUE)
    /\ screen = Some(TRUE)

\* C13: a daemon cycle in which the display command fails, the launch of the
\* set command included, reports the error and ends with last_bw_state
\* unknown, so that last_bw_state never holds a target that was not applied.
C13_FailureSurfaced ==
    [][ (DaemonCycle /\ UnknownOrDiffers /\ xrandr # "applied")
            => (cycle'.display_err /\ last_bw_state' = None) ]_vars

\* The part of C13 the code keeps: a failure to list the displays is
\* reported and leaves last_bw_state unknown, and the next cycle issues the
\* command again.
C13_ListFailureSurfaced ==
    [][ (DaemonCycle /\ UnknownOrDiffers /\ xrandr = "list_failed")
            => (cycle'.display_err /\ last_bw_state' = None) ]_vars

\* C19: after the display commands, a daemon cycle on a display on which
\* every command succeeds leaves the display in the state the configuration
\* and the time ask for.
C19_DisplayConverges ==
    [][ DaemonCycle => screen' = Some(Target) ]_vars

\* ------------------------------------------------ notions of the fault claims
\* What a reconciliation of the hosts file alone yields: whether it fails,
\* and the content of the file after it.
HostsFails ==
    \/ \E i \in 1..Len(Config.rules) :
           Config.rules[i].start_time \notin 0..(DayMinutes - 1)
              \/ Config.rules[i].end_time \notin 0..(DayMinutes - 1)
    \/ /\ hosts_fs = "unwritable"
       /\ LET content == IF hosts_fs = "unreadable" THEN << >> ELSE hosts
          IN trim(final_content(content, domains_to_block(Config.rules, now)))
                 # trim(content)
HostsAfter ==
    LET content == IF hosts_fs = "unreadable" THEN << >> ELSE hosts
        new_content == final_content(content, domains_to_block(Config.rules, now))
    IN IF HostsFails \/ trim(new_content) = trim(content) THEN hosts
       ELSE new_content

\* What a reconciliation of the display alone yields.
DisplayFails == UnknownOrDiffers /\ xrandr = "list_failed"
ScreenAfter ==
    IF UnknownOrDiffers /\ xrandr = "applied" THEN Some(Target) ELSE screen

\* C14: a daemon cycle whose configuration loads runs both reconciliations,
\* each with the outcome it has alone, whichever of them fails; a cycle whose
\* configuration does not load runs neither; and the cycle that follows a
\* failed one does the same again.
C14_FailuresIsolated ==
    [][ DaemonCycle =>
          /\ cycle'.ran
          /\ cycle'.loaded <=> ("rules" \in DOMAIN config_file[1])
          /\ cycle'.loaded =>
                 /\ cycle'.hosts_called /\ cycle'.display_called
                 /\ cycle'.hosts_err <=> HostsFails
                 /\ hosts' = HostsAfter
                 /\ cycle'.display_err <=> DisplayFails
                 /\ screen' = ScreenAfter
          /\ ~cycle'.loaded =>
                 /\ ~cycle'.hosts_called /\ ~cycle'.display_called
                 /\ hosts' = hosts /\ screen' = screen ]_vars

\* A cycle in which both reconciliations failed, and the file was written
\* by an earlier one.
C14_Witness ==
    /\ cycle.loaded
    /\ cycle.hosts_err
    /\ cycle.display_err
    /\ last_bw_state = None
    /\ run.wrote

\* C20: a reconciliation in which reading the hosts file fails writes
\* nothing, so the file keeps every line it had.
C20_ReadFailureKeepsHosts ==
    [][ (DaemonCycle /\ hosts_fs = "unreadable") => hosts' = hosts ]_vars

\* C15: an `exception allow` on a date other than last_exception_date works
\* with the counter 0 and the date of today: with a limit of at least 1 and a
\* rule of the domain it succeeds and persists the counter 1 and today's
\* date, whatever the counter was; on the date of last_exception_date it
\* works with the persisted counter.
C15_LazyReset ==
    [][ \A d \in AllowNames, m \in AllowMinutes :
          Allow(d, m) =>
              IF Config.last_exception_date # Today
              THEN IF Config.exception_daily_limit >= 1
                   THEN HasRuleOf(Normalized(d)) =>
                            /\ out'.result = "granted"
                            /\ Config'.exceptions_used_count = 1
                            /\ Config'.last_exception_date = Today
                   ELSE out'.result = "quota_exceeded"
              ELSE IF Config.exceptions_used_count >= Config.exception_daily_limit
                   THEN out'.result = "quota_exceeded" /\ config_file' = config_file
                   ELSE HasRuleOf(Normalized(d)) =>
                            /\ out'.result = "granted"
                            /\ Config'.exceptions_used_count =
                                   Config.exceptions_used_count + 1
                            /\ Config'.last_exception_date = Today ]_vars

\* Under a limit of 1, a grant on the second day after a grant on the first:
\* the two rules carry expiries of different days and the counter is 1.
C15_Witness ==
    /\ Today = 2
    /\ out.result = "granted"
    /\ Config.exception_daily_limit = 1
    /\ Config.exceptions_used_count = 1
    /\ Config.last_exception_date = Today
    /\ Len(Config.rules) = 2
    /\ Config.rules[1].exception_until = Some(2 * TicksPerDay - 1)
    /\ Config.rules[2].exception_until = Some(now + MaxMinutes * TicksPerMinute)

\* ------------------------------------------- notions of the configuration
\* The value the specification gives a field that the file does not hold.
SpecDefault(f) ==
    CASE f = "rules" -> << >>
      [] f = "bw_rules" -> << >>
      [] f = "manual_bw_active" -> FALSE
      [] f = "exception_daily_limit" -> 2
      [] f = "exceptions_used_count" -> 0
      [] f = "last_exception_date" -> 0

\* The value of field f the specification has a command load.
SpecLoaded(f) ==
    IF config_file # None /\ f \in DOMAIN config_file[1]
    THEN config_file[1][f] ELSE SpecDefault(f)

\* C16: a command loads the configuration of a file that omits fields: a
\* field the file omits has its default (empty lists, no override, limit 2,
\* count 0, the date 1970-01-01) and a field it holds has its value, with no
\* file every field has its default; what `bw on` saves and a reload returns
\* is that configuration with the override set.  Stated here for the files
\* that hold `rules`, and for no file.
C16_MissingFieldsDefault ==
    [][ (BwOn /\ (config_file = None \/ "rules" \in DOMAIN config_file[1])) =>
          /\ out'.result = "ok"
          /\ \A f \in ConfigFields :
                 Config'[f] = IF f = "manual_bw_active" THEN TRUE
                              ELSE SpecLoaded(f) ]_vars

\* The parts of C16 the code keeps: with no file every field has its
\* default, a file that holds `rules` loads, every field it omits but the
\* limit has its default, and a configuration that is saved loads again as it
\* was saved.
C16_CodeDefaults ==
    /\ config_file = None => \A f \in ConfigFields : Config[f] = SpecDefault(f)
    /\ (config_file # None /\ "rules" \in DOMAIN config_file[1]) =>
           /\ load_ok(config_file)
           /\ \A f \in ConfigFields \ {"exception_daily_limit"} :
                  Config[f] = IF f \in DOMAIN config_file[1]
                              THEN config_file[1][f] ELSE SpecDefault(f)
           /\ load_config(save_config(Config)) = Config

\* C17: `remove <name>` deletes every rule of the normalized name and no
\* other, keeps the rest in their order, saves it and reconciles the hosts
\* file against the rest; without a rule of the name it saves nothing and
\* leaves the hosts file alone; `add <name>` stores the rule under the
\* normalized name, so the same name removes it.
C17_RemoveAllOfDomain ==
    [][ /\ \A d \in Names :
              Remove(d) =>
                  LET rules == Config.rules
                      rest == Pick(rules, { i \in 1..Len(rules) :
                                              rules[i].domain # Normalized(d) })
                      new_content ==
                          final_content(hosts, domains_to_block(rest, now))
                  IN IF HasRuleOf(Normalized(d))
                     THEN /\ Config' = [Config EXCEPT !.rules = rest]
                          /\ config_file' # None
                          /\ out'.result = "removed"
                          /\ Range(run'.domains_to_block) = DomainsBlockedAt(rest, now)
                          /\ hosts' = IF trim(new_content) # trim(hosts)
                                      THEN new_content ELSE hosts
                     ELSE /\ config_file' = config_file
                          /\ hosts' = hosts
                          /\ out'.result = "not_found"
        /\ \A d \in Names, st \in Times :
              Add(d, st, 0) =>
                  Config'.rules[Len(Config'.rules)].domain = Normalized(d) ]_vars

\* One rule of three went: the two rules of the other domain stay in the
\* order they had, and the block of the hosts file holds their domain only.
C17_Witness ==
    /\ out.result = "removed"
    /\ Len(Config.rules) = 2
    /\ Config.rules[1].domain = "a.com" /\ Config.rules[1].start_time = 1
    /\ Config.rules[2].domain = "a.com" /\ Config.rules[2].start_time = 0
    /\ run.wrote
    /\ InManagedBlock(hosts, "a.com")
    /\ ~HasLineOf(hosts, "b.com")

\* ----------------------------------------------- notions of the race claim
\* The file is as process p loaded it.
NotStale(p) == load_config(config_file) = allow_procs[p].loaded

\* C18 as stated: whatever the interleaving of the steps of the `exception
\* allow` processes of one day, the grants that succeeded do not exceed the
\* limit, and the persisted counter is their number.
C18_QuotaUnderRace ==
    /\ GrantsToday <= Config.exception_daily_limit
    /\ UsedToday = GrantsToday

\* C18, amended: the persisted counter never exceeds the limit nor the number
\* of grants that succeeded; a process that saves while the file is as it
\* loaded it raises the counter by one and keeps the grants within the limit
\* if they were; a process that saves over the save of another one leaves
\* the counter at its own count, below the number of grants.
C18_CounterUnderRace ==
    [][ \A p \in Procs :
          AllowSave(p) =>
              /\ UsedToday' <= Config'.exception_daily_limit
              /\ UsedToday' <= GrantsToday'
              /\ GrantsToday' = GrantsToday + 1
              /\ UsedToday' = allow_procs[p].loaded.exceptions_used_count + 1
              /\ (NotStale(p) /\ UsedToday = GrantsToday)
                     => (UsedToday' = GrantsToday'
                            /\ GrantsToday' <= Config'.exception_daily_limit)
              /\ (~NotStale(p) /\ UsedToday = GrantsToday)
                     => UsedToday' < GrantsToday' ]_vars

\* Two processes loaded the same file under a limit of 1 and both saved:
\* two grants, two rules with an exception, and the counter 1.
C18_Witness ==
    /\ Config.exception_daily_limit = 1
    /\ Config.exceptions_used_count = 1
    /\ tally.granted = 2
    /\ \A p \in Procs : allow_procs[p].pc = "idle"
    /\ out.result = "granted"

====
